---- MODULE Spec2Model ----
(***************************************************************************)
(* Model of sw.js, the offline cache service worker of kr-close-report:    *)
(* the install, activate and fetch listeners over the origin's cache       *)
(* storage (an ordered map bucket name -> (request key -> response)).      *)
(*                                                                         *)
(* Every asynchronous step of a listener (a promise callback, a cache or   *)
(* network operation that resolves) is one action, so the steps of         *)
(* different listeners interleave as the event loop can interleave them.   *)
(* A worker of the superseded version runs the same fetch listener with    *)
(* its own version string (OLD_CACHE_NAME) in the place of CACHE_NAME.     *)
(***************************************************************************)
EXTENDS Integers, Sequences, FiniteSets, TLC

\* sw.js:1
CACHE_NAME == "kr-close-report-v1"

\* sw.js:2
CORE_ASSETS == <<"/", "/index.html", "/manifest.webmanifest", "/icon-192.png", "/icon-512.png">>

CoreSet == {CORE_ASSETS[i] : i \in 1..Len(CORE_ASSETS)}

\* The key of the fallback lookup, caches.match("/") (sw.js:25).
ROOT_IndexHtml == "/index.html"
ROOT == "/"

\* The version string of the superseded worker (line 1 of its sw.js).
OLD_CACHE_NAME == "kr-close-report-v0"

\* A bucket of the origin that no version of the worker writes to.
OTHER_CACHE_NAME == "legacy-cache"

\* ---- bounds ----
\* Number of fetch events dispatched in a run.
MaxFetch == 2
\* Number of those that the superseded worker may still get to handle.
MaxOldFetch == 1

Names == {CACHE_NAME, OLD_CACHE_NAME, OTHER_CACHE_NAME}
\* Request URLs: the core assets and one URL outside the list.
Urls == CoreSet \cup {"/data.json"}
\* URLs the controlled pages request.
FetchUrls == {"/", "/data.json"}
Statuses == {200, 404}
\* The network answers the root document with an ok status and may answer
\* the other URL with either status.
NetStatuses(u) == IF u = "/" THEN {200} ELSE Statuses
\* The requests of the controlled pages: a GET of either URL, a POST of the
\* URL outside the core list.
Requests == {<<"GET", u>> : u \in FetchUrls} \cup {<<"POST", "/data.json">>}
FetchIds == 1..MaxFetch

\* A response: the URL it answers, its status and where it came from
\* (a fetch event's network request, install's addAll, or earlier history).
\* Undefined stands for JavaScript's undefined (no response).
Undefined == [url |-> "", status |-> 0, from |-> <<"none", 0>>]
NetResponse(u, s, i) == [url |-> u, status |-> s, from |-> <<"fetch", i>>]
InstallResponse(u) == [url |-> u, status |-> 200, from |-> <<"install", 0>>]
OldResponse(u) == [url |-> u, status |-> 200, from |-> <<"old", 0>>]

EmptyBucket == [u \in Urls |-> Undefined]

VARIABLES
    order,          \* cache storage: names of the existing buckets, in creation order
    entries,        \* cache storage: entries[name][url], Undefined when absent
    swState,        \* lifecycle state of the worker with CACHE_NAME
    installPc,      \* the promise given to waitUntil in install
    assetFailed,    \* some core asset could not be fetched by addAll
    skipWaitingFlag,
    activatePc,     \* the promise given to waitUntil in activate
    delStatus,      \* per bucket name: the promise of caches.delete in activate
    oldActive,      \* a worker of the superseded version is the active worker
    fetches         \* the fetch events: one record per event

vars == <<order, entries, swState, installPc, assetFailed, skipWaitingFlag,
          activatePc, delStatus, oldActive, fetches>>

storage == <<order, entries>>
lifecycle == <<swState, installPc, assetFailed, skipWaitingFlag, activatePc, delStatus>>

Range(s) == {s[i] : i \in 1..Len(s)}
Exists(name) == name \in Range(order)

\* Sequences over a set of names without repetition.
RECURSIVE Perms(_)
Perms(S) ==
    IF S = {} THEN {<<>>}
    ELSE UNION {{<<x>> \o p : p \in Perms(S \ {x})} : x \in S}

IdleFetch ==
    [pc |-> "idle", worker |-> "", method |-> "", url |-> "",
     res |-> Undefined, returned |-> Undefined, responded |-> FALSE,
     fetched |-> FALSE, cacheOps |-> 0, detached |-> FALSE, hit |-> "",
     late |-> FALSE]

\* ---- cache storage operations ----

\* caches.open(name): the bucket is created, last in order, when absent.
OpenOrder(name) == IF Exists(name) THEN order ELSE Append(order, name)

\* caches.match(key) looks through every bucket of the origin in creation
\* order and answers with the first entry found: the bucket that answers.
MatchBucket(key) ==
    IF \E i \in 1..Len(order) : entries[order[i]][key] # Undefined
    THEN order[CHOOSE i \in 1..Len(order) :
                 /\ entries[order[i]][key] # Undefined
                 /\ \A j \in 1..(i - 1) : entries[order[j]][key] = Undefined]
    ELSE ""

CachesMatch(key) ==
    IF MatchBucket(key) = "" THEN Undefined ELSE entries[MatchBucket(key)][key]

\* caches.delete(name): the bucket leaves the storage.
RemoveName(name) == SelectSeq(order, LAMBDA n : n # name)

\* cache.put(key, resp) on the bucket called name.
PutNothing(name, key, resp) == entries
PutUnderRoot(name, key, resp) == [entries EXCEPT ![name]["/"] = resp]
PutOkOnly(name, key, resp) ==
    IF resp.status = 200 THEN [entries EXCEPT ![name][key] = resp] ELSE entries
PutIfAbsent(name, key, resp) ==
    IF entries[name][key] = Undefined THEN [entries EXCEPT ![name][key] = resp] ELSE entries
Put(name, key, resp) == [entries EXCEPT ![name][key] = resp]

\* caches.open(CACHE_NAME) in the then callback: the bucket that a worker's
\* background store opens is the one named by the worker's version string.
StoreBucketLegacy(w) == OTHER_CACHE_NAME
StoreBucket(w) == w

\* A background store holds a bucket once its caches.open has resolved
\* (put is its second cache call).
HoldsHandle(f) == f.pc \in {"storePut", "stored", "storeFailed"} /\ f.cacheOps = 2

\* ---- install listener (sw.js:4-7) ----

\* What the request of one core asset ends in: a response with an ok status,
\* a response with another status, or a network error.
AssetOutcomes == {"ok", "notok", "neterror"}
\* The outcomes of one addAll: any set of assets fails, in one of the two ways.
AddAllOutcomes ==
    {[a \in CoreSet |-> IF a \in bad THEN kind ELSE "ok"] :
        bad \in SUBSET CoreSet, kind \in AssetOutcomes \ {"ok"}}

\* cache.addAll resolves only when every request was fetched with an ok status.
AddAllSucceedsAny(outcome) == \E a \in CoreSet : outcome[a] = "ok"
AddAllSucceeds(outcome) == \A a \in CoreSet : outcome[a] = "ok"

\* The bucket after addAll stored the responses of the whole list.
AddAllEntriesFirstOnly(bucket) ==
    [bucket EXCEPT ![CORE_ASSETS[1]] = InstallResponse(CORE_ASSETS[1])]
AddAllEntries(bucket) ==
    [u \in Urls |-> IF u \in CoreSet THEN InstallResponse(u) ELSE bucket[u]]

\* What waitUntil (sw.js:5) lets the runtime see of the install step.
InstallResultNoWaitUntil == IF installPc = "none" THEN "pending" ELSE "ok"
InstallResult ==
    IF installPc = "fulfilled" THEN "ok"
    ELSE IF installPc = "rejected" THEN "failed"
    ELSE "pending"

\* The install event: waitUntil(caches.open(...).then(...)); skipWaiting().
InstallEvent ==
    /\ swState = "parsed"
    /\ swState' = "installing"
    /\ installPc' = "open"
    /\ skipWaitingFlag' = TRUE
    /\ UNCHANGED <<storage, assetFailed, activatePc, delStatus, oldActive, fetches>>

\* caches.open(CACHE_NAME) resolves.
InstallOpen ==
    /\ installPc = "open"
    /\ order' = OpenOrder(CACHE_NAME)
    /\ installPc' = "addAll"
    /\ UNCHANGED <<entries, swState, assetFailed, skipWaitingFlag, activatePc,
                   delStatus, oldActive, fetches>>

\* caches.open(CACHE_NAME) rejects (storage error).
InstallOpenFails ==
    /\ installPc = "open"
    /\ installPc' = "rejected"
    /\ UNCHANGED <<storage, swState, assetFailed, skipWaitingFlag, activatePc,
                   delStatus, oldActive, fetches>>

\* cache.addAll(CORE_ASSETS) settles: all responses stored, or none.
InstallAddAll ==
    /\ installPc = "addAll"
    /\ \E outcome \in AddAllOutcomes :
        /\ assetFailed' = (\E a \in CoreSet : outcome[a] # "ok")
        /\ IF AddAllSucceeds(outcome)
           THEN /\ entries' = [entries EXCEPT ![CACHE_NAME] = AddAllEntries(@)]
                /\ installPc' = "fulfilled"
           ELSE /\ entries' = entries
                /\ installPc' = "rejected"
    /\ UNCHANGED <<order, swState, skipWaitingFlag, activatePc, delStatus,
                   oldActive, fetches>>

\* The runtime ends the install step once the waitUntil promise settled.
InstallSettle ==
    /\ swState = "installing"
    /\ InstallResult # "pending"
    /\ swState' = IF InstallResult = "ok" THEN "installed" ELSE "redundant"
    /\ UNCHANGED <<storage, installPc, assetFailed, skipWaitingFlag, activatePc,
                   delStatus, oldActive, fetches>>

\* ---- activate listener (sw.js:9-14) ----

\* keys.map((k) => (k !== CACHE_NAME ? caches.delete(k) : null))
ShouldDeleteFlipped(k) == k = CACHE_NAME
ShouldDelete(k) == k # CACHE_NAME

\* The activate event: the installed worker takes over at once when
\* skipWaiting was called, or when there is no active worker to wait for.
ActivateEvent ==
    /\ swState = "installed"
    /\ skipWaitingFlag \/ ~oldActive
    /\ swState' = "activating"
    /\ activatePc' = "keys"
    /\ oldActive' = FALSE
    /\ UNCHANGED <<storage, installPc, assetFailed, skipWaitingFlag, delStatus, fetches>>

\* caches.keys() resolves; the map starts one delete per name to delete.
ActivateKeys ==
    /\ activatePc = "keys"
    /\ activatePc' = "deleting"
    /\ delStatus' = [n \in Names |->
                        IF ~Exists(n) THEN "none"
                        ELSE IF ShouldDelete(n) THEN "pending" ELSE "null"]
    /\ UNCHANGED <<storage, swState, installPc, assetFailed, skipWaitingFlag,
                   oldActive, fetches>>

\* keys.map(...) has called caches.delete for every name to delete before
\* Promise.all sees any of the promises: each delete settles on its own.
DeleteSettlesUntilFailure(k) ==
    delStatus[k] = "pending" /\ \A n \in Names : delStatus[n] # "failed"
DeleteSettles(k) == delStatus[k] = "pending"

\* caches.delete(k) resolves: the bucket is gone; handles that a background
\* store holds on it no longer reach the storage.
ActivateDelete(k) ==
    /\ DeleteSettles(k)
    /\ delStatus' = [delStatus EXCEPT ![k] = "ok"]
    /\ order' = RemoveName(k)
    /\ entries' = [entries EXCEPT ![k] = EmptyBucket]
    /\ fetches' = [i \in FetchIds |->
                     IF StoreBucket(fetches[i].worker) = k /\ HoldsHandle(fetches[i])
                     THEN [fetches[i] EXCEPT !.detached = TRUE]
                     ELSE fetches[i]]
    /\ UNCHANGED <<swState, installPc, assetFailed, skipWaitingFlag, activatePc, oldActive>>

\* caches.delete(k) rejects (storage error): the bucket stays.
ActivateDeleteFails(k) ==
    /\ DeleteSettles(k)
    /\ delStatus' = [delStatus EXCEPT ![k] = "failed"]
    /\ UNCHANGED <<storage, swState, installPc, assetFailed, skipWaitingFlag,
                   activatePc, oldActive, fetches>>

\* Promise.all settles (rejected with the first rejection, fulfilled when all
\* are fulfilled) and with it the activate step: the worker is activated
\* whatever the promise's outcome.
ActivateSettle ==
    /\ activatePc = "deleting"
    /\ \/ /\ \E n \in Names : delStatus[n] = "failed"
          /\ activatePc' = "rejected"
       \/ /\ \A n \in Names : delStatus[n] \notin {"failed", "pending"}
          /\ activatePc' = "fulfilled"
    /\ swState' = "activated"
    /\ UNCHANGED <<storage, installPc, assetFailed, skipWaitingFlag, delStatus,
                   oldActive, fetches>>

\* ---- fetch listener (sw.js:16-27) ----

\* if (event.request.method !== "GET") return;
InterceptedAll(method) == TRUE
Intercepted(method) == method = "GET"

SetFetch(i, rec) == fetches' = [fetches EXCEPT ![i] = rec]

\* The worker that controls the pages: the activated worker, or the
\* superseded one until the new worker takes over.
Controller ==
    IF swState = "activated" THEN {CACHE_NAME}
    ELSE IF oldActive THEN {OLD_CACHE_NAME} ELSE {}

\* A fetch event is dispatched; the listener returns at once for a method
\* other than GET, and otherwise calls respondWith(fetch(event.request)...).
FetchEvent(i) ==
    /\ fetches[i].pc = "idle"
    /\ \A j \in 1..(i - 1) : fetches[j].pc # "idle"
    /\ \E w \in Controller, r \in Requests :
        /\ w = OLD_CACHE_NAME => i <= MaxOldFetch
        /\ SetFetch(i, [fetches[i] EXCEPT
                !.worker = w, !.method = r[1], !.url = r[2],
                !.pc = IF Intercepted(r[1]) THEN "net" ELSE "passthrough",
                !.responded = Intercepted(r[1]),
                !.fetched = Intercepted(r[1])])
    /\ UNCHANGED <<storage, lifecycle, oldActive>>

\* return res: the then callback returns the response right after it
\* started caches.open(...).then(put), without a promise of the store.
DeliveredAfterStore(res) == Undefined
Delivered(res) == res

\* Whether the network fetch of another interception of the same worker
\* for the same request has resolved before that of interception i.
ResolvesLate(i) ==
    \E j \in FetchIds \ {i} :
        /\ fetches[j].worker = fetches[i].worker
        /\ fetches[j].url = fetches[i].url
        /\ fetches[j].res # Undefined

\* fetch(event.request) resolves with a response of any status: the then
\* callback clones it, starts caches.open(CACHE_NAME) and returns the response.
NetResolve(i) ==
    /\ fetches[i].pc = "net"
    /\ \E s \in NetStatuses(fetches[i].url) :
        SetFetch(i, [fetches[i] EXCEPT
            !.res = NetResponse(fetches[i].url, s, i),
            !.returned = Delivered(NetResponse(fetches[i].url, s, i)),
            !.late = ResolvesLate(i),
            !.cacheOps = @ + 1,
            !.pc = "storeOpen"])
    /\ UNCHANGED <<storage, lifecycle, oldActive>>

\* fetch(event.request) rejects: the catch callback starts caches.match(request).
NetReject(i) ==
    /\ fetches[i].pc = "net"
    /\ SetFetch(i, [fetches[i] EXCEPT !.cacheOps = @ + 1, !.pc = "match1"])
    /\ UNCHANGED <<storage, lifecycle, oldActive>>

\* caches.open(CACHE_NAME) of the background store resolves; put is called.
StoreOpen(i) ==
    /\ fetches[i].pc = "storeOpen"
    /\ order' = OpenOrder(StoreBucket(fetches[i].worker))
    /\ SetFetch(i, [fetches[i] EXCEPT !.cacheOps = @ + 1, !.pc = "storePut"])
    /\ UNCHANGED <<entries, lifecycle, oldActive>>

\* cache.put(event.request, copy) resolves.
StorePut(i) ==
    /\ fetches[i].pc = "storePut"
    /\ entries' = IF fetches[i].detached THEN entries
                  ELSE Put(StoreBucket(fetches[i].worker), fetches[i].url, fetches[i].res)
    /\ SetFetch(i, [fetches[i] EXCEPT !.pc = "stored"])
    /\ UNCHANGED <<order, lifecycle, oldActive>>

\* caches.open or cache.put of the background store rejects; nobody awaits it.
StoreFails(i) ==
    /\ fetches[i].pc \in {"storeOpen", "storePut"}
    /\ SetFetch(i, [fetches[i] EXCEPT !.pc = "storeFailed"])
    /\ UNCHANGED <<storage, lifecycle, oldActive>>

\* cached || caches.match("/"): the second lookup is made when the first
\* resolved with undefined.
FallsBackAlways(cached) == TRUE
FallsBack(cached) == cached = Undefined

\* The entries after a lookup of the catch branch resolved with cached for
\* the request key: caches.match only reads, the branch calls no put.
CatchEntriesStoresFallback(key, cached) ==
    IF cached = Undefined THEN entries ELSE [entries EXCEPT ![CACHE_NAME][key] = cached]
CatchEntries(key, cached) == entries

\* caches.match(event.request) resolves: cached || caches.match("/").
Match1(i) ==
    /\ fetches[i].pc = "match1"
    /\ IF ~FallsBack(CachesMatch(fetches[i].url))
       THEN SetFetch(i, [fetches[i] EXCEPT
                !.returned = CachesMatch(fetches[i].url),
                !.hit = MatchBucket(fetches[i].url),
                !.pc = "done"])
       ELSE SetFetch(i, [fetches[i] EXCEPT !.cacheOps = @ + 1, !.pc = "match2"])
    /\ entries' = CatchEntries(fetches[i].url, CachesMatch(fetches[i].url))
    /\ UNCHANGED <<order, lifecycle, oldActive>>

\* What cached || caches.match("/") resolves with when cached is undefined.
RootFallbackOrOffline ==
    IF CachesMatch(ROOT) = Undefined THEN OldResponse(ROOT) ELSE CachesMatch(ROOT)
RootFallback == CachesMatch(ROOT)

\* caches.match("/") resolves, with a response or with undefined.
Match2(i) ==
    /\ fetches[i].pc = "match2"
    /\ SetFetch(i, [fetches[i] EXCEPT
            !.returned = RootFallback,
            !.hit = MatchBucket(ROOT),
            !.pc = "done"])
    /\ entries' = CatchEntries(fetches[i].url, RootFallback)
    /\ UNCHANGED <<order, lifecycle, oldActive>>

\* ---- the specification ----

\* Before the worker is installed any buckets of other names may exist, in
\* any order; they hold responses of earlier history for the same set of
\* URLs. A superseded worker can be active only where its bucket exists.
InitialKeySets == {{}, {"/"}, FetchUrls}

Init ==
    /\ \E S \in SUBSET (Names \ {CACHE_NAME}) : order \in Perms(S)
    /\ \E K \in InitialKeySets :
        entries = [n \in Names |->
                     IF n \in Range(order)
                     THEN [u \in Urls |-> IF u \in K THEN OldResponse(u) ELSE Undefined]
                     ELSE EmptyBucket]
    /\ swState = "parsed"
    /\ installPc = "none"
    /\ assetFailed = FALSE
    /\ skipWaitingFlag = FALSE
    /\ activatePc = "none"
    /\ delStatus = [n \in Names |-> "none"]
    /\ oldActive \in {FALSE, Exists(OLD_CACHE_NAME)}
    /\ fetches = [i \in FetchIds |-> IdleFetch]

Next ==
    \/ InstallEvent
    \/ InstallOpen
    \/ InstallOpenFails
    \/ InstallAddAll
    \/ InstallSettle
    \/ ActivateEvent
    \/ ActivateKeys
    \/ \E k \in Names : ActivateDelete(k)
    \/ \E k \in Names : ActivateDeleteFails(k)
    \/ ActivateSettle
    \/ \E i \in FetchIds : FetchEvent(i)
    \/ \E i \in FetchIds : NetResolve(i)
    \/ \E i \in FetchIds : NetReject(i)
    \/ \E i \in FetchIds : StoreOpen(i)
    \/ \E i \in FetchIds : StorePut(i)
    \/ \E i \in FetchIds : StoreFails(i)
    \/ \E i \in FetchIds : Match1(i)
    \/ \E i \in FetchIds : Match2(i)

Spec == Init /\ [][Next]_vars

\* ---- properties ----

Current(i) == fetches[i].worker = CACHE_NAME
CoreStored ==
    /\ Exists(CACHE_NAME)
    /\ \A a \in CoreSet :
        entries[CACHE_NAME][a] # Undefined /\ entries[CACHE_NAME][a].url = a
Cached(key) == \E n \in Range(order) : entries[n][key] # Undefined

\* C1: once the install step has completed successfully, every path of
\* CORE_ASSETS has an entry in the bucket named CACHE_NAME.
C1_InstallStoresCoreAssets == installPc = "fulfilled" => CoreStored

C1_Witness == installPc = "fulfilled" /\ swState = "installed"

C4_ExactEntryReturned ==
    [][\A i \in FetchIds :
        (/\ fetches[i].pc = "match1"
         /\ fetches'[i].pc # "match1"
         /\ Cached(fetches[i].url)) =>
            /\ fetches'[i].pc = "done"
            /\ fetches'[i].returned # Undefined
            /\ fetches'[i].returned.url = fetches[i].url
            /\ \E n \in Range(order) :
                /\ fetches'[i].hit = n
                /\ fetches'[i].returned = entries[n][fetches[i].url]]_vars

C4_Witness ==
    \E i \in FetchIds :
        /\ Current(i)
        /\ fetches[i].pc = "done"
        /\ fetches[i].url = "/data.json"
        /\ fetches[i].hit # ""
        /\ fetches[i].returned.url = "/data.json"

\* C5: when the network fetch of an intercepted GET has failed and the
\* lookup of the request finds no entry for it, the entry cached for "/" is
\* looked up next and is the response returned whenever there is one.
C5_RootEntryReturned ==
    [][\A i \in FetchIds :
        /\ (/\ fetches[i].pc = "match1"
            /\ fetches'[i].pc # "match1"
            /\ ~Cached(fetches[i].url)) => fetches'[i].pc = "match2"
        /\ (/\ fetches[i].pc = "match2"
            /\ fetches'[i].pc # "match2"
            /\ Cached("/")) =>
                /\ fetches'[i].pc = "done"
                /\ fetches'[i].returned # Undefined
                /\ \E n \in Range(order) :
                    /\ fetches'[i].hit = n
                    /\ fetches'[i].returned = entries[n]["/"]]_vars

C5_Witness ==
    \E i \in FetchIds :
        /\ Current(i)
        /\ fetches[i].pc = "done"
        /\ fetches[i].url = "/data.json"
        /\ fetches[i].returned.url = "/"

\* C6: for a request whose method is not GET the fetch listener does not
\* call respondWith, issues no network request and makes no cache call.
C6_NonGetNotIntercepted ==
    \A i \in FetchIds :
        (fetches[i].pc # "idle" /\ fetches[i].method # "GET") =>
            /\ fetches[i].pc = "passthrough"
            /\ ~fetches[i].responded
            /\ ~fetches[i].fetched
            /\ fetches[i].cacheOps = 0
            /\ fetches[i].res = Undefined
            /\ fetches[i].returned = Undefined

C6_Witness ==
    \E i \in FetchIds :
        /\ Current(i)
        /\ fetches[i].method = "POST"
        /\ fetches[i].pc = "passthrough"

\* C7 as stated: when a GET of the current worker for a key succeeded at the
\* network and its background store has completed, the lookup of a later
\* GET for the same key whose network fetch failed returns the response
\* stored in the bucket named CACHE_NAME under that key, not undefined.
C7_OfflineReturnsStoredResponse ==
    [][\A j \in FetchIds :
        (/\ Current(j)
         /\ fetches[j].pc = "match1"
         /\ fetches'[j].pc # "match1"
         /\ \E i \in FetchIds \ {j} :
                /\ Current(i)
                /\ fetches[i].url = fetches[j].url
                /\ fetches[i].pc = "stored") =>
            /\ fetches'[j].pc = "done"
            /\ fetches'[j].returned # Undefined
            /\ fetches'[j].hit = CACHE_NAME
            /\ fetches'[j].returned = entries[CACHE_NAME][fetches[j].url]
            /\ fetches'[j].returned.from[1] = "fetch"]_vars

\* C8 as stated: once the worker with CACHE_NAME has been activated, the
\* fallback lookup of a GET it handles never returns an entry of the bucket
\* named by the superseded version string.
C8_NoEntryOfOldBucketReturned ==
    \A i \in FetchIds :
        (Current(i) /\ fetches[i].pc = "done") => fetches[i].hit # OLD_CACHE_NAME

\* C9: if a core asset could not be fetched during install, the promise
\* given to waitUntil rejects and the install step fails; a worker that went
\* past the install step has every core asset in the bucket named CACHE_NAME.
C9_InstallFailsOnMissingAsset ==
    /\ assetFailed => (installPc = "rejected" /\ swState \in {"installing", "redundant"})
    /\ swState \in {"installed", "activating", "activated"} => (~assetFailed /\ CoreStored)

C9_Witness == assetFailed /\ installPc = "rejected" /\ swState = "redundant"

\* C10: the activate listener starts only after the promise given to
\* waitUntil in install was fulfilled: never while the population is
\* pending, though skipWaiting has been called by then, and never after it
\* failed.
C10_ActivateAfterInstall ==
    /\ (activatePc # "none" \/ swState \in {"activating", "activated"}) =>
            installPc = "fulfilled"
    /\ installPc \in {"open", "addAll"} => swState \in {"installing"}
    /\ installPc = "rejected" => swState \in {"installing", "redundant"}

C10_Witness ==
    /\ skipWaitingFlag
    /\ oldActive
    /\ installPc = "addAll"
    /\ swState = "installing"

\* C11: the response of a successful GET is returned when the network fetch
\* resolves, before caches.open and cache.put have resolved, so it is
\* delivered whether or not the entry is in the bucket; a rejection of
\* caches.open or cache.put leaves the returned response as it was.
C11_StoreIsFireAndForget ==
    \A i \in FetchIds :
        fetches[i].pc \in {"storeOpen", "storePut", "stored", "storeFailed"} =>
            /\ fetches[i].responded
            /\ fetches[i].res # Undefined
            /\ fetches[i].returned = fetches[i].res

C11_Witness ==
    \E i \in FetchIds :
        /\ Current(i)
        /\ fetches[i].pc = "storeFailed"
        /\ fetches[i].returned = fetches[i].res
        /\ fetches[i].url = "/data.json"
        /\ entries[CACHE_NAME]["/data.json"] = Undefined

\* C12: when the network fetch of an intercepted GET has failed and the
\* storage holds an entry neither for the request nor for "/", the promise
\* given to respondWith resolves with undefined: no response is made up.
C12_NoResponseOnTotalMiss ==
    [][\A i \in FetchIds :
        (/\ fetches[i].pc = "match2"
         /\ fetches'[i].pc # "match2"
         /\ ~Cached("/")) =>
            /\ fetches'[i].pc = "done"
            /\ fetches'[i].responded
            /\ fetches'[i].returned = Undefined
            /\ fetches'[i].hit = ""]_vars

C12_Witness ==
    \E i \in FetchIds :
        /\ fetches[i].method = "GET"
        /\ fetches[i].pc = "done"
        /\ fetches[i].responded
        /\ fetches[i].returned = Undefined
        /\ ~Cached(fetches[i].url)
        /\ ~Cached("/")

\* C13: once activate has listed the keys, the deletion of every bucket with
\* a name other than CACHE_NAME is under way whatever the order of the
\* keys; a deletion that failed leaves every other pending deletion able
\* to complete, and leaves the activate step able to finish (it ends with
\* the worker activated though the promise given to waitUntil rejected).
C13_DeletionsIndependent ==
    activatePc \in {"deleting", "fulfilled", "rejected"} =>
        /\ \A n \in Names : delStatus[n] = "null" => n = CACHE_NAME
        /\ \A n \in Range(order) \ {CACHE_NAME} :
            \/ delStatus[n] \in {"pending", "failed"}
            \/ \E i \in FetchIds :
                fetches[i].worker = n /\ HoldsHandle(fetches[i]) /\ ~fetches[i].detached
        /\ \A k \in Names : delStatus[k] = "pending" => ENABLED ActivateDelete(k)
        /\ (activatePc = "deleting" /\ \E n \in Names : delStatus[n] = "failed") =>
                ENABLED ActivateSettle
        /\ activatePc = "rejected" => swState = "activated"

C13_Witness ==
    /\ swState = "activated"
    /\ activatePc = "rejected"
    /\ delStatus[OLD_CACHE_NAME] = "failed"
    /\ delStatus[OTHER_CACHE_NAME] = "ok"
    /\ Exists(OLD_CACHE_NAME)
    /\ ~Exists(OTHER_CACHE_NAME)

\* C14: under every interleaving of the interceptions in flight, each one
\* returns the response of its own network fetch, or else what its own
\* fallback lookup found for its request or for "/"; and every entry stored
\* under a key is one whole response that the network returned for a
\* request with that key (to install, to earlier history, or to the
\* interception of the bucket's worker that the entry names).
C14_ConcurrentInterceptionsSafe ==
    /\ \A i \in FetchIds :
        /\ fetches[i].res # Undefined =>
            /\ fetches[i].res = NetResponse(fetches[i].url, fetches[i].res.status, i)
            /\ fetches[i].returned = fetches[i].res
            /\ fetches[i].hit = ""
        /\ (fetches[i].res = Undefined /\ fetches[i].pc # "done") =>
            fetches[i].returned = Undefined
        /\ (fetches[i].res = Undefined /\ fetches[i].returned # Undefined) =>
            /\ fetches[i].hit \in Names
            /\ fetches[i].returned.url \in {fetches[i].url, "/"}
    /\ \A n \in Names, k \in Urls :
        entries[n][k] # Undefined =>
            /\ entries[n][k].url = k
            /\ entries[n][k].status \in Statuses
            /\ \/ entries[n][k].from \in {<<"install", 0>>, <<"old", 0>>}
               \/ /\ entries[n][k].from[1] = "fetch"
                  /\ entries[n][k].from[2] \in FetchIds
                  /\ fetches[entries[n][k].from[2]].res = entries[n][k]
                  /\ fetches[entries[n][k].from[2]].worker = n

C14_Witness ==
    \E i, j \in FetchIds :
        /\ j < i
        /\ Current(i) /\ Current(j)
        /\ fetches[i].url = "/data.json" /\ fetches[j].url = "/data.json"
        /\ fetches[i].pc = "stored"
        /\ fetches[j].pc = "storePut"
        /\ entries[CACHE_NAME]["/data.json"] = fetches[i].res

\* C15: once install has succeeded, no step of the activate listener or of
\* an interception removes the bucket named CACHE_NAME or an entry of it
\* (entries are added or overwritten only), so an interception handled by
\* the worker whose network fetch failed ends with some response, never
\* with undefined.
C15_CurrentBucketOnlyGrows ==
    [][installPc = "fulfilled" =>
        /\ Exists(CACHE_NAME) => (Exists(CACHE_NAME))'
        /\ \A k \in Urls :
            entries[CACHE_NAME][k] # Undefined => entries'[CACHE_NAME][k] # Undefined
        /\ entries'[CACHE_NAME]["/"] # Undefined
        /\ \A i \in FetchIds :
            (fetches'[i].worker = CACHE_NAME /\ fetches'[i].pc = "done") =>
                fetches'[i].returned # Undefined]_vars

C15_Witness ==
    \E i \in FetchIds :
        /\ swState = "activated"
        /\ Current(i)
        /\ fetches[i].pc = "done"
        /\ fetches[i].url = "/data.json"
        /\ fetches[i].hit = CACHE_NAME
        /\ fetches[i].returned = entries[CACHE_NAME]["/"]

\* Interceptions i and j are the two of the current worker whose network
\* fetch resolved for the same key, i's first, and both background stores
\* have completed.
BothStored(i, j) ==
    /\ i # j
    /\ Current(i) /\ Current(j)
    /\ fetches[i].url = fetches[j].url
    /\ fetches[i].pc = "stored" /\ fetches[j].pc = "stored"
    /\ ~fetches[i].late /\ fetches[j].late
    /\ \A k \in FetchIds \ {i, j} :
        ~(Current(k) /\ fetches[k].url = fetches[i].url /\ fetches[k].res # Undefined)

\* C16 as stated: when two GET interceptions for the same key both succeeded
\* at the network and both background stores have completed, the entry for
\* the key is the response of the network fetch that resolved last.
C16_LastResolvedIsCached ==
    \A i, j \in FetchIds :
        BothStored(i, j) => entries[CACHE_NAME][fetches[i].url] = fetches[j].res

\* C16 amended: when both background stores have completed, the entry for
\* the key is the response of one of the two interceptions, the one whose
\* cache.put resolved last: each put that resolves makes its own response
\* the entry, whichever network fetch resolved first.
C16_LastPutIsCached ==
    [][/\ \A i \in FetchIds :
            (Current(i) /\ fetches[i].pc = "storePut" /\ fetches'[i].pc = "stored") =>
                entries'[CACHE_NAME][fetches[i].url] = fetches[i].res
       /\ \A i, j \in FetchIds :
            BothStored(i, j)' =>
                entries'[CACHE_NAME][fetches'[i].url] \in {fetches'[i].res, fetches'[j].res}]_vars

C16_Witness ==
    \E i, j \in FetchIds :
        /\ BothStored(i, j)
        /\ entries[CACHE_NAME][fetches[i].url] = fetches[i].res

C19_FailedFetchLeavesCacheUnchanged ==
    [][\A i \in FetchIds :
        (/\ fetches[i].method = "GET"
         /\ fetches[i].pc \in {"net", "match1", "match2"}
         /\ fetches'[i].pc \in {"match1", "match2", "done"}
         /\ fetches'[i].pc # fetches[i].pc) =>
            /\ order' = order
            /\ entries' = entries
            /\ fetches'[i].res = Undefined
            /\ ~HoldsHandle(fetches'[i])]_vars

C19_Witness ==
    \E i, j \in FetchIds :
        /\ i # j
        /\ Current(i) /\ Current(j)
        /\ fetches[i].pc = "done" /\ fetches[j].pc = "done"
        /\ fetches[i].res = Undefined /\ fetches[j].res = Undefined
        /\ fetches[i].url = "/data.json"
        /\ fetches[i].hit = CACHE_NAME
        /\ fetches[i].returned.url = "/"
        /\ fetches[j].url = "/"
        /\ fetches[j].hit = CACHE_NAME
        /\ fetches[j].returned = entries[CACHE_NAME]["/"]
        /\ entries[CACHE_NAME]["/data.json"] = Undefined

====
